---- MODULE Spec2Model ----
(***************************************************************************)
(* Model of the pay-stub pipeline of main.py: process_pay_stubs iterates   *)
(* the pages of the source PDF, extracts the recipient with re.search,     *)
(* saves a one-page artifact in the working directory, calls send_email    *)
(* (which files the artifact into 'Sent' through move_to_sent_folder) and, *)
(* on any exception of send_email, files the artifact into 'Failed to      *)
(* Send' through move_to_failed_send_folder.                               *)
(*                                                                         *)
(* Strings are sequences of one-character strings, so that the file-name   *)
(* arithmetic of the code (basename, splitext, split, f-strings) is        *)
(* computed and not assumed.  A directory is a function from the file      *)
(* names it holds to the content of each file; the content of an artifact  *)
(* is the (1-based) number of the source page it was split from, and 0     *)
(* is the content of a file left by an earlier run.                        *)
(***************************************************************************)
EXTENDS Integers, Sequences, FiniteSets, TLC

\* ------------------------------------------------------------------ bounds
MaxPages == 3
MaxPreSuffix == 1
MaxTokens == 5
MaxProbe == 5

\* ------------------------------------------------------- string primitives
SEP == <<" ", "-", " ">>
PDF == <<".", "p", "d", "f">>
DOTCOM == <<".", "c", "o", "m">>

Digit(d) == CASE d = 0 -> "0" [] d = 1 -> "1" [] d = 2 -> "2" [] d = 3 -> "3"
              [] d = 4 -> "4" [] d = 5 -> "5" [] d = 6 -> "6" [] d = 7 -> "7"
              [] d = 8 -> "8" [] d = 9 -> "9"

RECURSIVE str(_)
str(n) == IF n < 10 THEN <<Digit(n)>> ELSE str(n \div 10) \o <<Digit(n % 10)>>

\* s[i..j] as Python's s[i-1:j]; empty when j < i
Slice(s, i, j) == IF j < i THEN <<>> ELSE SubSeq(s, i, j)

\* s.startswith(t, i-1)
StartsAt(s, t, i) == /\ i + Len(t) - 1 <= Len(s)
                     /\ \A k \in 1..Len(t) : s[i + k - 1] = t[k]

\* s.rfind(c) + 1 (0 when c does not occur)
rfind(s, c) == LET I == {i \in 1..Len(s) : s[i] = c}
               IN IF I = {} THEN 0 ELSE CHOOSE i \in I : \A k \in I : k <= i

\* s.find(t) + 1 (0 when t does not occur)
find(s, t) == LET I == {i \in 1..Len(s) : StartsAt(s, t, i)}
              IN IF I = {} THEN 0 ELSE CHOOSE i \in I : \A k \in I : i <= k

\* s.replace(a, b) for one-character a and b
replace(s, a, b) == [i \in 1..Len(s) |-> IF s[i] = a THEN b ELSE s[i]]

basename(p) == Slice(p, rfind(p, "/") + 1, Len(p))

\* os.path.splitext: split at the last dot of the last component, unless
\* only dots precede it there
splitext(p) ==
    LET sepIndex == rfind(p, "/")
        dotIndex == rfind(p, ".")
    IN IF /\ dotIndex > sepIndex
          /\ \E k \in (sepIndex + 1)..(dotIndex - 1) : p[k] # "."
       THEN <<Slice(p, 1, dotIndex - 1), Slice(p, dotIndex, Len(p))>>
       ELSE <<p, <<>> >>

\* s.split(' - ', 1): two parts at the first separator, one part without it
split1(s) ==
    LET i == find(s, SEP)
    IN IF i = 0 THEN <<s>>
       ELSE <<Slice(s, 1, i - 1), Slice(s, i + Len(SEP), Len(s))>>

\* ------------------------------------------------------ Recipient Extractor
Letters == {"a", "b", "c", "d", "e", "f", "g", "h", "i", "j", "k", "l", "m",
            "n", "o", "p", "q", "r", "s", "t", "u", "v", "w", "x", "y", "z"}
Digits == {"0", "1", "2", "3", "4", "5", "6", "7", "8", "9"}
\* [\w\.-]
LocalClass == Letters \cup Digits \cup {"_", ".", "-"}
\* the character class [domain] of the pattern as it stands in the source
DomainClass == {"d", "o", "m", "a", "i", "n"}

\* a match of ([\w\.-]+)@[domain]\.com starting at i whose group ends at j
MatchAt(text, i, j) ==
    /\ i <= j
    /\ j + 6 <= Len(text)
    /\ text[j + 1] = "@"
    /\ \A k \in i..j : text[k] \in LocalClass
    /\ text[j + 2] \in DomainClass
    /\ StartsAt(text, DOTCOM, j + 3)

\* variant: re.match in place of re.search, a match only at the start
re_match(text) ==
    IF \E j \in 1..Len(text) : MatchAt(text, 1, j)
    THEN LET j == CHOOSE e \in 1..Len(text) : MatchAt(text, 1, e)
         IN <<Slice(text, 1, j + 6), Slice(text, 1, j)>>
    ELSE <<>>

\* re.search: the leftmost match; <<>> stands for None, otherwise
\* <<group(0), group(1)>>
re_search(text) ==
    LET Starts == {i \in 1..Len(text) : \E j \in i..Len(text) : MatchAt(text, i, j)}
    IN IF Starts = {} THEN <<>>
       ELSE LET i == CHOOSE s \in Starts : \A k \in Starts : s <= k
                j == CHOOSE e \in i..Len(text) : MatchAt(text, i, e)
            IN <<Slice(text, i, j + 6), Slice(text, i, j)>>

\* f"{period_end_date} - {email_identifier}.pdf"
output_pdf_path_of(date, email_identifier) == date \o SEP \o email_identifier \o PDF


\* ------------------------------------------------------------- directories
\* the directory d with the file name holding content
WithFile(d, name, content) ==
    [n \in DOMAIN d \cup {name} |-> IF n = name THEN content ELSE d[n]]

\* the directory d without the file name
WithoutFile(d, name) == [n \in DOMAIN d \ {name} |-> d[n]]

\* os.rename(src, dst) between two directories, with POSIX semantics: a file
\* already at dst is silently replaced
os_rename(from, src, to, dst) ==
    [from |-> WithoutFile(from, src), to |-> WithFile(to, dst, from[src])]

\* ------------------------------------------------------------------- Filer
\* f"{date_part} - {name_part} - {counter}{ext}"
unique_name(date_part, name_part, counter, ext) ==
    date_part \o SEP \o name_part \o SEP \o str(counter) \o ext

\* the while loop of move_to_sent_folder: the first unused name among
\* sent_file_path, unique_name(counter), unique_name(counter + 1), ...
RECURSIVE probe(_, _, _, _, _, _)
probe(names, date_part, name_part, ext, sent_file_path, counter) ==
    IF sent_file_path \notin names THEN sent_file_path
    ELSE probe(names, date_part, name_part, ext,
               unique_name(date_part, name_part, counter, ext), counter + 1)

\* variant: the destination is not probed, the original name is used as is
sent_file_path_unprobed(names, pay_stub_path) == basename(pay_stub_path)

\* variant: the counter of the collision loop starts at 0
sent_file_path_from0(names, pay_stub_path) ==
    LET original_name == basename(pay_stub_path)
        be == splitext(original_name)
        parts == split1(be[1])
    IN probe(names, parts[1], parts[2], be[2], original_name, 0)

\* the name under 'Sent' that move_to_sent_folder renames pay_stub_path to
sent_file_path_of(names, pay_stub_path) ==
    LET original_name == basename(pay_stub_path)
        be == splitext(original_name)
        parts == split1(be[1])
    IN probe(names, parts[1], parts[2], be[2], original_name, 1)

\* move_to_sent_folder: the working directory and 'Sent' after the rename
move_to_sent_folder(wd, sentdir, pay_stub_path) ==
    os_rename(wd, pay_stub_path, sentdir,
              sent_file_path_of(DOMAIN sentdir, pay_stub_path))

\* variant: the rename has the same source and destination, nothing moves
move_to_failed_send_folder_unmoved(wd, faileddir, output_pdf_path) ==
    [from |-> wd, to |-> faileddir]

\* move_to_failed_send_folder: the working directory and 'Failed to Send'
\* after os.rename(output_pdf_path, 'Failed to Send/' + output_pdf_path)
move_to_failed_send_folder(wd, faileddir, output_pdf_path) ==
    os_rename(wd, output_pdf_path, faileddir, output_pdf_path)

\* ------------------------------------------------------------------ inputs
a_at_d == <<"a", "@", "d", ".", "c", "o", "m">>
b_at_d == <<"b", "@", "d", ".", "c", "o", "m">>
no_address == <<"h", "i">>
PageTexts == {no_address, a_at_d, b_at_d}

\* what the user types at the 'Period End Date (MM/DD/YYYY)' prompt
RawDates == {<<"1", "/", "5">>}

\* main: formatted_date = period_end_date.replace('/', '-')
formatted_date(raw) == replace(raw, "/", "-")

SeqsUpTo(S, n) == UNION {[1..k -> S] : k \in 1..n}

\* names an earlier run with the same date may have left in 'Sent'
PreSentNames(date) ==
    {date \o <<" ", "-", " ", "a", ".", "p", "d", "f">>}
      \cup {date \o <<" ", "-", " ", "a", " ", "-", " ">> \o str(k) \o <<".", "p", "d", "f">> :
               k \in 1..MaxPreSuffix}

\* names an earlier run with the same date may have left in 'Failed to Send'
PreFailedNames(date) == {date \o <<" ", "-", " ", "a", ".", "p", "d", "f">>}

OldFiles(names) == [n \in names |-> 0]

\* ------------------------------------------------------------------- state
VARIABLES
    pages,            \* the text of each page of the source document
    period_end_date,  \* the formatted date process_pay_stubs receives
    pc,               \* position in main / process_pay_stubs
    doc,              \* the source document handle
    page_num,         \* the loop variable (0-based)
    cwd,              \* the working directory
    sent,             \* the directory 'Sent'
    failed,           \* the directory 'Failed to Send'
    log,              \* what was printed
    exc,              \* the exception being handled or propagating
    sessions,         \* number of SMTP_SSL sessions opened
    outbox,           \* the messages the server accepted
    sent_file_path,   \* local of move_to_sent_folder: the name being probed
    counter,          \* local of move_to_sent_folder (0 outside of it)
    name_parts        \* locals of move_to_sent_folder: <<date_part, name_part, ext>>

vars == <<pages, period_end_date, pc, doc, page_num, cwd, sent, failed, log,
          exc, sessions, outbox, sent_file_path, counter, name_parts>>

\* locals of the current iteration
text == pages[page_num + 1]
email_match == re_search(text)
email == email_match[1]
email_identifier == email_match[2]
output_pdf_path == output_pdf_path_of(period_end_date, email_identifier)

\* a printed line: which print statement, and the values formatted into it
Line(kind, args) == [kind |-> kind, args |-> args]

Init ==
    /\ pages \in SeqsUpTo(PageTexts, MaxPages)
    /\ \E raw \in RawDates :
         /\ period_end_date = formatted_date(raw)
         /\ \E S \in SUBSET PreSentNames(formatted_date(raw)) : sent = OldFiles(S)
         /\ \E F \in SUBSET PreFailedNames(formatted_date(raw)) : failed = OldFiles(F)
    /\ pc = "start"
    /\ doc = "unopened"
    /\ page_num = 0
    /\ cwd = OldFiles({})
    /\ log = <<>>
    /\ exc = "none"
    /\ sessions = 0
    /\ outbox = <<>>
    /\ sent_file_path = <<>>
    /\ counter = 0
    /\ name_parts = <<>>

\* ----------------------------------------------------------------- actions
\* line 114: doc = fitz.open(pdf_path)
Open ==
    /\ pc = "start"
    /\ UNCHANGED <<sent_file_path, counter, name_parts>>
    /\ doc' = "open"
    /\ pc' = "loop"
    /\ UNCHANGED <<pages, period_end_date, page_num, cwd, sent, failed, log,
                   exc, sessions, outbox>>

\* line 114 raising: the source cannot be opened
OpenFails ==
    /\ pc = "start"
    /\ UNCHANGED <<sent_file_path, counter, name_parts>>
    /\ pc' = "raised"
    /\ exc' = "FileDataError"
    /\ UNCHANGED <<pages, period_end_date, doc, page_num, cwd, sent, failed,
                   log, sessions, outbox>>

\* lines 115-121: next page, an address is found
Extract ==
    /\ pc = "loop"
    /\ UNCHANGED <<sent_file_path, counter, name_parts>>
    /\ page_num < Len(pages)
    /\ email_match # <<>>
    /\ pc' = "split"
    /\ UNCHANGED <<pages, period_end_date, doc, page_num, cwd, sent, failed,
                   log, exc, sessions, outbox>>

\* variant: the artifact is saved before the match is tested
NoEmail_saves ==
    /\ pc = "loop"
    /\ UNCHANGED <<sent_file_path, counter, name_parts>>
    /\ page_num < Len(pages)
    /\ email_match = <<>>
    /\ cwd' = WithFile(cwd, output_pdf_path_of(period_end_date, <<>>), page_num + 1)
    /\ log' = Append(log, Line("no_email", <<page_num + 1>>))
    /\ page_num' = page_num + 1
    /\ UNCHANGED <<pages, period_end_date, pc, doc, sent, failed, exc,
                   sessions, outbox>>

\* lines 115-119, 134-135: next page, no address is found
NoEmail ==
    /\ pc = "loop"
    /\ UNCHANGED <<sent_file_path, counter, name_parts>>
    /\ page_num < Len(pages)
    /\ email_match = <<>>
    /\ log' = Append(log, Line("no_email", <<page_num + 1>>))
    /\ page_num' = page_num + 1
    /\ UNCHANGED <<pages, period_end_date, pc, doc, cwd, sent, failed, exc,
                   sessions, outbox>>

\* variant: insert_pdf copies the page after the current one
Split_next ==
    /\ pc = "split"
    /\ UNCHANGED <<sent_file_path, counter, name_parts>>
    /\ cwd' = WithFile(cwd, output_pdf_path, page_num + 2)
    /\ pc' = "send"
    /\ UNCHANGED <<pages, period_end_date, doc, page_num, sent, failed, log,
                   exc, sessions, outbox>>

\* lines 122-126: the one-page artifact is saved in the working directory,
\* replacing a file of the same name
Split ==
    /\ pc = "split"
    /\ UNCHANGED <<sent_file_path, counter, name_parts>>
    /\ cwd' = WithFile(cwd, output_pdf_path, page_num + 1)
    /\ pc' = "send"
    /\ UNCHANGED <<pages, period_end_date, doc, page_num, sent, failed, log,
                   exc, sessions, outbox>>

\* lines 123-126 raising: nothing catches it, it leaves process_pay_stubs
SplitFails ==
    /\ pc = "split"
    /\ UNCHANGED <<sent_file_path, counter, name_parts>>
    /\ pc' = "raised"
    /\ exc' = "SplitError"
    /\ UNCHANGED <<pages, period_end_date, doc, page_num, cwd, sent, failed,
                   log, sessions, outbox>>

Message == [to |-> email, filename |-> basename(output_pdf_path),
            data |-> cwd[output_pdf_path]]

\* variant: the success message is not printed
SendEmailOk_silent ==
    /\ pc = "send"
    /\ UNCHANGED <<sent_file_path, counter, name_parts>>
    /\ sessions' = sessions + 1
    /\ outbox' = Append(outbox, Message)
    /\ LET r == move_to_sent_folder(cwd, sent, output_pdf_path)
       IN /\ cwd' = r.from
          /\ sent' = r.to
    /\ page_num' = page_num + 1
    /\ pc' = "loop"
    /\ UNCHANGED <<pages, period_end_date, doc, failed, exc, log>>

\* lines 129-130: send_email returns; the message was accepted and the
\* artifact renamed into 'Sent'
SendEmailOk ==
    /\ pc = "send"
    /\ UNCHANGED <<sent_file_path, counter, name_parts>>
    /\ sessions' = sessions + 1
    /\ outbox' = Append(outbox, Message)
    /\ LET r == move_to_sent_folder(cwd, sent, output_pdf_path)
       IN /\ cwd' = r.from
          /\ sent' = r.to
    /\ log' = Append(log, Line("sent", <<email>>))
    /\ page_num' = page_num + 1
    /\ pc' = "loop"
    /\ UNCHANGED <<pages, period_end_date, doc, failed, exc>>

\* variant: a failed send is tried again
SendEmailRejected_retry ==
    /\ pc = "send"
    /\ UNCHANGED <<sent_file_path, counter, name_parts>>
    /\ sessions <= Len(pages)
    /\ sessions' = sessions + 1
    /\ exc' = "SMTPException"
    /\ pc' = "send"
    /\ UNCHANGED <<pages, period_end_date, doc, page_num, cwd, sent, failed,
                   log, outbox>>

\* lines 76-78 raising: connection, login or send_message fails
SendEmailRejected ==
    /\ pc = "send"
    /\ UNCHANGED <<sent_file_path, counter, name_parts>>
    /\ sessions' = sessions + 1
    /\ exc' = "SMTPException"
    /\ pc' = "except"
    /\ UNCHANGED <<pages, period_end_date, doc, page_num, cwd, sent, failed,
                   log, outbox>>

\* line 76 raising on leaving the with block: the message was accepted and
\* QUIT is answered with an error
SendEmailQuitRaises ==
    /\ pc = "send"
    /\ UNCHANGED <<sent_file_path, counter, name_parts>>
    /\ sessions' = sessions + 1
    /\ outbox' = Append(outbox, Message)
    /\ exc' = "SMTPResponseException"
    /\ pc' = "except"
    /\ UNCHANGED <<pages, period_end_date, doc, page_num, cwd, sent, failed,
                   log>>

\* line 98 raising: the message was accepted and os.rename into 'Sent' fails
SendEmailRenameRaises ==
    /\ pc = "send"
    /\ UNCHANGED <<sent_file_path, counter, name_parts>>
    /\ sessions' = sessions + 1
    /\ outbox' = Append(outbox, Message)
    /\ exc' = "OSError"
    /\ pc' = "except"
    /\ UNCHANGED <<pages, period_end_date, doc, page_num, cwd, sent, failed,
                   log>>

\* variant: the handler prints and does not file the artifact
ExceptFiled_leaves ==
    /\ pc = "except"
    /\ UNCHANGED <<sent_file_path, counter, name_parts>>
    /\ log' = Append(log, Line("failed", <<email, exc>>))
    /\ exc' = "none"
    /\ page_num' = page_num + 1
    /\ pc' = "loop"
    /\ UNCHANGED <<pages, period_end_date, doc, cwd, sent, failed, sessions,
                   outbox>>

\* lines 131-133: the handler prints and files the artifact as failed
ExceptFiled ==
    /\ pc = "except"
    /\ UNCHANGED <<sent_file_path, counter, name_parts>>
    /\ log' = Append(log, Line("failed", <<email, exc>>))
    /\ LET r == move_to_failed_send_folder(cwd, failed, output_pdf_path)
       IN /\ cwd' = r.from
          /\ failed' = r.to
    /\ exc' = "none"
    /\ page_num' = page_num + 1
    /\ pc' = "loop"
    /\ UNCHANGED <<pages, period_end_date, doc, sent, sessions, outbox>>

\* lines 131-133 with os.rename of line 145 raising (destination unwritable,
\* or an existing destination where rename does not replace): the handler
\* has printed, the error leaves process_pay_stubs
ExceptRaises ==
    /\ pc = "except"
    /\ UNCHANGED <<sent_file_path, counter, name_parts>>
    /\ log' = Append(log, Line("failed", <<email, exc>>))
    /\ exc' = "FilingError"
    /\ pc' = "raised"
    /\ UNCHANGED <<pages, period_end_date, doc, page_num, cwd, sent, failed,
                   sessions, outbox>>

\* line 136: the loop is over, doc.close()
Close ==
    /\ pc = "loop"
    /\ UNCHANGED <<sent_file_path, counter, name_parts>>
    /\ page_num = Len(pages)
    /\ doc' = "closed"
    /\ pc' = "done"
    /\ UNCHANGED <<pages, period_end_date, page_num, cwd, sent, failed, log,
                   exc, sessions, outbox>>

\* line 169: main prints its closing message, a literal without any count
MainPrint ==
    /\ pc = "done"
    /\ UNCHANGED <<sent_file_path, counter, name_parts>>
    /\ log' = Append(log, Line("paystubs_sent", <<>>))
    /\ pc' = "exit"
    /\ UNCHANGED <<pages, period_end_date, doc, page_num, cwd, sent, failed,
                   exc, sessions, outbox>>

Next ==
    \/ Open
    \/ OpenFails
    \/ Extract
    \/ NoEmail
    \/ Split
    \/ SplitFails
    \/ SendEmailOk
    \/ SendEmailRejected
    \/ SendEmailQuitRaises
    \/ SendEmailRenameRaises
    \/ ExceptFiled
    \/ ExceptRaises
    \/ Close
    \/ MainPrint

Spec == Init /\ [][Next]_vars

\* ------------------------------------------- the Extractor on its own
\* pieces of page text: local-part characters, a blank, '@' alone, a full
\* '@d.com' tail, and a tail under a domain the pattern does not accept
Tokens == {<<"a">>, <<"b">>, <<".">>, <<" ">>, <<"@">>,
           <<"@", "d", ".", "c", "o", "m">>, <<"@", "x", ".", "c", "o", "m">>}

RECURSIVE Flatten(_)
Flatten(ts) == IF ts = <<>> THEN <<>> ELSE Head(ts) \o Flatten(Tail(ts))

\* one page, its text any concatenation of at most MaxTokens tokens, at
\* the head of the loop of process_pay_stubs
InitExtract ==
    /\ \E ts \in SeqsUpTo(Tokens, MaxTokens) : pages = <<Flatten(ts)>>
    /\ \E raw \in RawDates : period_end_date = formatted_date(raw)
    /\ pc = "loop"
    /\ doc = "open"
    /\ page_num = 0
    /\ cwd = OldFiles({})
    /\ sent = OldFiles({})
    /\ failed = OldFiles({})
    /\ log = <<>>
    /\ exc = "none"
    /\ sessions = 0
    /\ outbox = <<>>
    /\ sent_file_path = <<>>
    /\ counter = 0
    /\ name_parts = <<>>

NextExtract ==
    \/ Extract
    \/ NoEmail

SpecExtract == InitExtract /\ [][NextExtract]_vars

\* ------------------------------- move_to_sent_folder, statement by statement
\* the argument of move_to_sent_folder: the path of the current page's
\* artifact in the working directory
pay_stub_path == CHOOSE n \in DOMAIN cwd : cwd[n] = page_num + 1

\* lines 89-91: <<date_part, name_part, ext>> of a path
name_parts_of(path) ==
    LET be == splitext(basename(path))
        parts == split1(be[1])
    IN <<parts[1], parts[2], be[2]>>

\* names that 'Sent' may hold when the filing starts
ProbeNames(date) ==
    {date \o <<" ", "-", " ", "a", ".", "p", "d", "f">>}
      \cup {date \o <<" ", "-", " ", "a", " ", "-", " ">> \o str(k) \o <<".", "p", "d", "f">> :
               k \in 1..MaxProbe}

\* send_email has called move_to_sent_folder (line 79) for the only page of
\* the source and lines 88-93 have run: the message was accepted, the
\* artifact is in the working directory, 'Sent' holds any of the names the
\* loop may probe, the first candidate is the unmodified name, counter = 1
InitFiling ==
    /\ \E t \in {a_at_d, b_at_d} : pages = <<t>>
    /\ \E raw \in RawDates :
         /\ period_end_date = formatted_date(raw)
         /\ \E S \in SUBSET ProbeNames(formatted_date(raw)) : sent = OldFiles(S)
         /\ cwd = WithFile(OldFiles({}),
                           output_pdf_path_of(formatted_date(raw),
                                              re_search(pages[1])[2]), 1)
         /\ name_parts = name_parts_of(output_pdf_path_of(formatted_date(raw),
                                                         re_search(pages[1])[2]))
         /\ sent_file_path = basename(output_pdf_path_of(formatted_date(raw),
                                                         re_search(pages[1])[2]))
         /\ outbox = <<[to |-> pages[1],
                        filename |-> output_pdf_path_of(formatted_date(raw),
                                                        re_search(pages[1])[2]),
                        data |-> 1]>>
    /\ pc = "while"
    /\ doc = "open"
    /\ page_num = 0
    /\ failed = OldFiles({})
    /\ log = <<>>
    /\ exc = "none"
    /\ sessions = 1
    /\ counter = 1

\* variant: the counter is not incremented
WhileBody_same_counter ==
    /\ pc = "while"
    /\ sent_file_path \in DOMAIN sent
    /\ sent_file_path' = unique_name(name_parts[1], name_parts[2], counter,
                                     name_parts[3])
    /\ counter' = counter
    /\ UNCHANGED <<pages, period_end_date, pc, doc, page_num, cwd, sent,
                   failed, log, exc, sessions, outbox, name_parts>>

\* lines 94-97: the candidate exists in 'Sent', the next one is built
WhileBody ==
    /\ pc = "while"
    /\ sent_file_path \in DOMAIN sent
    /\ sent_file_path' = unique_name(name_parts[1], name_parts[2], counter,
                                     name_parts[3])
    /\ counter' = counter + 1
    /\ UNCHANGED <<pages, period_end_date, pc, doc, page_num, cwd, sent,
                   failed, log, exc, sessions, outbox, name_parts>>

\* lines 94, 98: the candidate is unused, the artifact is renamed to it
Rename ==
    /\ pc = "while"
    /\ sent_file_path \notin DOMAIN sent
    /\ LET r == os_rename(cwd, pay_stub_path, sent, sent_file_path)
       IN /\ cwd' = r.from
          /\ sent' = r.to
    /\ pc' = "moved"
    /\ UNCHANGED <<pages, period_end_date, doc, page_num, failed, log, exc,
                   sessions, outbox, sent_file_path, counter, name_parts>>

\* lines 94, 98: the candidate is unused and os.rename raises
RenameRaises ==
    /\ pc = "while"
    /\ sent_file_path \notin DOMAIN sent
    /\ exc' = "OSError"
    /\ pc' = "except"
    /\ UNCHANGED <<pages, period_end_date, doc, page_num, cwd, sent, failed,
                   log, sessions, outbox, sent_file_path, counter, name_parts>>

NextFiling ==
    \/ WhileBody
    \/ Rename
    \/ RenameRaises

\* the interpreter keeps executing the function: a statement that can run,
\* runs
SpecFiling == InitFiling /\ [][NextFiling]_vars /\ WF_vars(NextFiling)

\* ------------------------------------------------------------- properties
\* the artifact split from page p is in directory d
ArtifactIn(d, p) == \E n \in DOMAIN d : d[n] = p

\* the page being processed, 1-based
cur == page_num + 1

\* C1 (as stated): whenever the dispatch of a page has failed, the handling
\* of the failure ends with the page's artifact in 'Failed to Send', not in
\* 'Sent', and the loop at the next page.
C1_FailedDispatchFiledAndContinues ==
    [][pc = "except" =>
         /\ ArtifactIn(failed', cur)
         /\ ~ArtifactIn(sent', cur)
         /\ pc' = "loop"
         /\ page_num' = page_num + 1]_vars

\* C1 (amended): whenever the dispatch of a page has failed, either
\* move_to_failed_send_folder returns, and then the artifact is in 'Failed
\* to Send', in neither 'Sent' nor the working directory, and the loop is at
\* the next page; or its rename raises, and then the run stops with the
\* artifact still in the working directory and in neither tracked directory.
C1_FailedDispatchFiledUnlessFilingRaises ==
    [][pc = "except" =>
         IF pc' = "raised"
         THEN /\ exc' = "FilingError"
              /\ ArtifactIn(cwd', cur)
              /\ ~ArtifactIn(failed', cur)
              /\ ~ArtifactIn(sent', cur)
         ELSE /\ ArtifactIn(failed', cur)
              /\ ~ArtifactIn(sent', cur)
              /\ ~ArtifactIn(cwd', cur)
              /\ pc' = "loop"
              /\ page_num' = page_num + 1]_vars

\* a failed dispatch of page 1 was filed and the run went on to finish page 2
C1_Witness ==
    /\ Len(log) >= 2
    /\ log[1].kind = "failed"
    /\ ArtifactIn(failed, 1)
    /\ ~ArtifactIn(sent, 1)
    /\ page_num >= 2

\* a delivered filing: send_email returns normally
DeliveredFiling == pc = "send" /\ pc' = "loop"

\* C2: no step removes or changes a file of 'Sent', and the number of files
\* in 'Sent' grows by exactly one with each delivered filing (and with
\* nothing else).
C2_SentNeverOverwritten ==
    [][/\ \A n \in DOMAIN sent : n \in DOMAIN sent' /\ sent'[n] = sent[n]
       /\ Cardinality(DOMAIN sent') =
            Cardinality(DOMAIN sent) + (IF DeliveredFiling THEN 1 ELSE 0)]_vars

\* two pages with the same address were both delivered into a 'Sent' that
\* already held a file of that name from an earlier run
C2_Witness ==
    /\ Len(pages) >= 2
    /\ pages[1] = a_at_d
    /\ pages[2] = a_at_d
    /\ ArtifactIn(sent, 1)
    /\ ArtifactIn(sent, 2)
    /\ ArtifactIn(sent, 0)

\* '<date> - <rest> - <n><ext>' for the current page's artifact
Suffixed(n) ==
    period_end_date \o <<" ", "-", " ">> \o email_identifier
      \o <<" ", "-", " ">> \o str(n) \o <<".", "p", "d", "f">>

\* the least n >= 1 whose suffixed name is not among names
LeastUnused(names) ==
    CHOOSE n \in 1..(Cardinality(names) + 1) :
        /\ Suffixed(n) \notin names
        /\ \A m \in 1..(n - 1) : Suffixed(m) \in names

\* C3: a delivered filing adds exactly one name to 'Sent': the artifact's
\* own name when 'Sent' does not hold it, otherwise the name with the
\* suffix ' - n' for the least n >= 1 that is unused in 'Sent'.
C3_LeastUnusedSuffix ==
    [][DeliveredFiling =>
         DOMAIN sent' \ DOMAIN sent =
           {IF output_pdf_path \notin DOMAIN sent THEN output_pdf_path
            ELSE Suffixed(LeastUnused(DOMAIN sent))}]_vars

\* third collision: an artifact of this run was filed under suffix 3, next
\* to the original name and the suffixes 1 and 2
C3_Witness ==
    \E n \in DOMAIN sent :
        /\ sent[n] >= 1
        /\ n = period_end_date \o <<" ", "-", " ", "a", " ", "-", " ", "3", ".", "p", "d", "f">>
        /\ \A k \in 1..2 :
             period_end_date \o <<" ", "-", " ", "a", " ", "-", " ">> \o str(k)
               \o <<".", "p", "d", "f">> \in DOMAIN sent
        /\ period_end_date \o <<" ", "-", " ", "a", ".", "p", "d", "f">> \in DOMAIN sent

\* C4 (as stated): an artifact of this run that is in 'Failed to Send' is
\* still there after every later step.
C4_FailedArtifactPersists ==
    [][\A p \in 1..Len(pages) : ArtifactIn(failed, p) => ArtifactIn(failed', p)]_vars

\* C5: a page without a matching address changes none of the three
\* directories, opens no session, sends nothing, prints the one diagnostic
\* with the page's number, and leaves the loop at the next page.
C5_NoMatchPageIsSkipped ==
    [][(pc = "loop" /\ page_num < Len(pages) /\ re_search(text) = <<>>) =>
         /\ cwd' = cwd
         /\ sent' = sent
         /\ failed' = failed
         /\ sessions' = sessions
         /\ outbox' = outbox
         /\ Len(log') = Len(log) + 1
         /\ log'[Len(log')] = Line("no_email", <<page_num + 1>>)
         /\ pc' = "loop"
         /\ page_num' = page_num + 1]_vars

\* a page without address was skipped and the loop stands before a next page
C5_Witness ==
    /\ log # <<>>
    /\ log[Len(log)].kind = "no_email"
    /\ pc = "loop"
    /\ page_num < Len(pages)

\* page p has a matching address
Matched(p) == re_search(pages[p]) # <<>>

\* C6 (as stated, for the pages whose iteration has finished): the artifact
\* of every page that reached the dispatch and finished, by send success or
\* by send failure, is in exactly one of 'Sent' and 'Failed to Send' and not
\* in the working directory, at every later point of the run and at its end.
C6_FinishedArtifactFiled ==
    \A p \in 1..page_num :
        Matched(p) =>
          /\ ArtifactIn(sent, p) # ArtifactIn(failed, p)
          /\ ~ArtifactIn(cwd, p)

\* C7 (as stated): in every terminal state of a run, completed or ended by
\* an escaping error, the source document is not left open.
C7_ClosedOnEveryExit == pc \in {"done", "exit", "raised"} => doc # "open"

\* C8 (as stated): a failure of the split is page-local: it prints a
\* diagnostic, touches no directory, opens no session, and leaves the loop
\* at the next page.
C8_SplitFailureIsPageLocal ==
    [][(pc = "split" /\ exc' = "SplitError") =>
         /\ pc' = "loop"
         /\ page_num' = page_num + 1
         /\ Len(log') = Len(log) + 1
         /\ sessions' = sessions
         /\ cwd' = cwd /\ sent' = sent /\ failed' = failed]_vars

\* the artifact of page p has been created
Created(p) ==
    /\ Matched(p)
    /\ \/ p <= page_num
       \/ p = cur /\ pc \in {"send", "except"}
       \/ p = cur /\ pc = "raised" /\ exc = "FilingError"

\* C9 (as stated): in every state between two steps, every artifact created
\* so far is at exactly one of the working directory, 'Sent' and 'Failed to
\* Send', and once its page is finished it is not in the working directory.
C9_ExactlyOneLocation ==
    \A p \in 1..Len(pages) :
        Created(p) =>
          /\ Cardinality({d \in {"cwd", "sent", "failed"} :
                 ArtifactIn(CASE d = "cwd" -> cwd [] d = "sent" -> sent
                              [] d = "failed" -> failed, p)}) = 1
          /\ p <= page_num => ~ArtifactIn(cwd, p)

\* number of printed lines of a kind
Count(kind) == Cardinality({i \in 1..Len(log) : log[i].kind = kind})

NSent == Cardinality({p \in 1..Len(pages) : ArtifactIn(sent, p)})
NFailed == Cardinality({p \in 1..Len(pages) : ArtifactIn(failed, p)})
NSkipped == Cardinality({p \in 1..Len(pages) : ~Matched(p)})

AddressAt(t, i, n) ==
    /\ 1 <= i /\ n <= Len(t) /\ i + 6 <= n
    /\ i = 1 \/ t[i - 1] \notin LocalClass
    /\ \A k \in i..(n - 6) : t[k] \in LocalClass
    /\ t[n - 5] = "@"
    /\ t[n - 4] \in DomainClass
    /\ <<t[n - 3], t[n - 2], t[n - 1], t[n]>> = <<".", "c", "o", "m">>

Addresses(t) == {io \in (1..Len(t)) \X (1..Len(t)) : AddressAt(t, io[1], io[2])}

\* the address of t that starts first
FirstAddress(t) ==
    LET io == CHOOSE x \in Addresses(t) : \A y \in Addresses(t) : x[1] <= y[1]
    IN SubSeq(t, io[1], io[2])

\* the part of an address before its '@'
BeforeAt(addr) == SubSeq(addr, 1, (CHOOSE k \in 1..Len(addr) : addr[k] = "@") - 1)

\* C11: on a page whose text holds a well-formed address, the Extractor
\* finds a match, the recipient is that whole address (the leftmost one
\* when there are several) and the identifier is non-empty and is the part
\* of the address before '@'.
C11_ExtractReturnsFirstAddress ==
    [][(pc = "loop" /\ page_num < Len(pages) /\ Addresses(text) # {}) =>
         /\ pc' = "split"
         /\ email = FirstAddress(text)
         /\ email_identifier # <<>>
         /\ email_identifier = BeforeAt(email)]_vars

\* a page with exactly one address, standing after other text, was matched
C11_Witness ==
    /\ pc = "split"
    /\ Cardinality(Addresses(text)) = 1
    /\ \E io \in Addresses(text) : io[1] > 1
    /\ email = FirstAddress(text)

\* the server accepted the message carrying the artifact of page p
Accepted(p) == \E i \in 1..Len(outbox) : outbox[i].data = p

\* C12 (as stated): an artifact is in 'Sent' only if its message was
\* accepted, an accepted artifact is never in 'Failed to Send', and once the
\* page of an accepted message is finished its artifact is in 'Sent' and the
\* line printed for the page is not the failure line, whatever happened in
\* send_email after the acceptance.
C12_AcceptedIsDelivered ==
    \A p \in 1..Len(pages) :
        /\ ArtifactIn(sent, p) => Accepted(p)
        /\ Accepted(p) => ~ArtifactIn(failed, p)
        /\ (Accepted(p) /\ p <= page_num) =>
              /\ ArtifactIn(sent, p)
              /\ log[p].kind # "failed"

\* the step in which the rename of a filing raises: line 98 inside
\* send_email, or line 145 inside the handler
FilingRaises ==
    \/ pc = "send" /\ exc' = "OSError"
    \/ pc = "except" /\ exc' = "FilingError"

\* C13 (as stated): when the rename of a filing raises, the run stops (the
\* error leaves process_pay_stubs, so no later page is touched) and the
\* artifact is still at its path in the working directory.
C13_FilingFailureStopsRun ==
    [][FilingRaises =>
         /\ pc' = "raised"
         /\ ArtifactIn(cwd', cur)
         /\ page_num' = page_num]_vars

\* the artifact of page p is somewhere, or its message was accepted
Touched(p) ==
    \/ ArtifactIn(cwd, p) \/ ArtifactIn(sent, p) \/ ArtifactIn(failed, p)
    \/ Accepted(p)

\* where the steps of the pages stand: nothing of a later page exists,
\* nothing of a finished page is pending, and the current page is exactly
\* as far as pc says
PagesInOrder ==
    /\ \A p \in 1..Len(pages) :
         /\ p > cur => ~Touched(p)
         /\ p <= page_num => ~ArtifactIn(cwd, p)
    /\ pc \in {"loop", "split"} /\ cur <= Len(pages) => ~Touched(cur)
    /\ pc = "send" => ArtifactIn(cwd, cur) /\ ~Accepted(cur)
    /\ pc = "except" => ArtifactIn(cwd, cur)

\* the steps of one page follow each other, and the loop variable moves by
\* one, to the head of the loop, from a page's last step only
StepsInOrder ==
    /\ page_num' = page_num \/ (page_num' = page_num + 1 /\ pc' = "loop")
    /\ page_num' # page_num => pc \in {"loop", "send", "except"}
    /\ pc' = "split" => pc = "loop"
    /\ pc' = "send" => pc = "split"
    /\ pc' = "except" => pc = "send"

\* C14: pages are processed in ascending order, one at a time: every step
\* (extract, split, dispatch, filing) of a page happens before any step of a
\* later page, and a page's extraction starts only when all earlier pages
\* are finished.
C14_PagesStrictlySequential == []PagesInOrder /\ [][StepsInOrder]_vars

\* page 2 is being dispatched after page 1 was delivered and filed
C14_Witness ==
    /\ page_num = 1
    /\ pc = "send"
    /\ ArtifactIn(sent, 1)
    /\ ArtifactIn(cwd, 2)

\* send_email has been called for page p and has returned or raised
Attempted(p) ==
    /\ \/ p <= page_num
       \/ p = cur /\ pc = "except"
       \/ p = cur /\ pc = "raised" /\ exc = "FilingError"
    /\ Matched(p)

\* one session per attempted page and none else, at most one accepted
\* message per page
OneAttemptPerPage ==
    /\ sessions = Cardinality({p \in 1..Len(pages) : Attempted(p)})
    /\ \A i, j \in 1..Len(outbox) : outbox[i].data = outbox[j].data => i = j
    /\ \A p \in 1..Len(pages) : Accepted(p) => Attempted(p)

\* a session is opened only by the one dispatch step of a page, which leaves
\* the dispatch; the failure handler sends nothing and never goes back to it
NoRetryStep ==
    /\ sessions' # sessions =>
         /\ sessions' = sessions + 1
         /\ pc = "send"
         /\ pc' \in {"loop", "except"}
    /\ pc = "except" =>
         /\ pc' \in {"loop", "raised"}
         /\ sessions' = sessions
         /\ outbox' = outbox

\* C15: nothing is retried: every page with a match whose split succeeded
\* gets exactly one dispatch attempt, every other page none, each attempt
\* opens one session of its own, and after a failed dispatch nothing more
\* is sent for the page.
C15_NoRetry == []OneAttemptPerPage /\ [][NoRetryStep]_vars

\* a run of several pages completed after the dispatch of page 1 failed
C15_Witness ==
    /\ pc = "exit"
    /\ Len(pages) >= 2
    /\ log[1].kind = "failed"
    /\ sessions = Cardinality({p \in 1..Len(pages) : Matched(p)})
    /\ ~Accepted(1)

\* the name under which the artifact of page p is in directory d
NameIn(d, p) == CHOOSE n \in DOMAIN d : d[n] = p

\* '<date> - <id>.pdf' and '<date> - <id> - 1.pdf' for the address of page p
PlainName(p) ==
    period_end_date \o <<" ", "-", " ">> \o re_search(pages[p])[2]
      \o <<".", "p", "d", "f">>
FirstSuffixName(p) ==
    period_end_date \o <<" ", "-", " ">> \o re_search(pages[p])[2]
      \o <<" ", "-", " ", "1", ".", "p", "d", "f">>

\* pages p < q resolve to the same identifier and both artifacts are in 'Sent'
BothDelivered(p, q) ==
    /\ p < q
    /\ ArtifactIn(sent, p) /\ ArtifactIn(sent, q)
    /\ Matched(p) /\ Matched(q)
    /\ re_search(pages[p])[2] = re_search(pages[q])[2]

\* C16 (as stated, its last part): two pages with the same identifier that
\* are both delivered are in 'Sent' under '<date> - <id>.pdf' and
\* '<date> - <id> - 1.pdf'.
C16_TwoDeliveredNamedPlainAndFirst ==
    \A p, q \in 1..Len(pages) :
        BothDelivered(p, q) =>
          /\ NameIn(sent, p) = PlainName(p)
          /\ NameIn(sent, q) = FirstSuffixName(q)

\* no artifact of the run is in the working directory at the head of the
\* loop, at most one is there at any time, and two delivered pages with the
\* same identifier have distinct names in 'Sent': the plain name and the
\* suffix 1 when 'Sent' held neither name before the run and no third page
\* with that identifier was delivered
WorkingDirectoryDrained ==
    /\ pc = "loop" => \A p \in 1..Len(pages) : ~ArtifactIn(cwd, p)
    /\ Cardinality({p \in 1..Len(pages) : ArtifactIn(cwd, p)}) <= 1
    /\ \A p, q \in 1..Len(pages) :
         BothDelivered(p, q) =>
           /\ NameIn(sent, p) # NameIn(sent, q)
           /\ ( /\ \A n \in {PlainName(p), FirstSuffixName(p)} :
                      n \in DOMAIN sent => sent[n] # 0
                /\ \A r \in 1..Len(pages) : BothDelivered(r, q) => r = p
                /\ \A r \in 1..Len(pages) : ~BothDelivered(q, r) )
              => /\ NameIn(sent, p) = PlainName(p)
                 /\ NameIn(sent, q) = FirstSuffixName(q)

\* the save of the Splitter never replaces a file of the working directory
SplitReplacesNothing ==
    (pc = "split" /\ pc' = "send") =>
        /\ output_pdf_path \notin DOMAIN cwd
        /\ \A n \in DOMAIN cwd : n \in DOMAIN cwd' /\ cwd'[n] = cwd[n]

\* C16 (amended): at the head of the loop no artifact of the run is in the
\* working directory and at most one is ever there, so the Splitter's save
\* replaces nothing; two delivered pages with the same identifier are in
\* 'Sent' under two distinct names, which are '<date> - <id>.pdf' and
\* '<date> - <id> - 1.pdf' when 'Sent' held neither name before the run and
\* they are the only delivered pages with that identifier.
C16_DrainedAndDistinctNames == []WorkingDirectoryDrained /\ [][SplitReplacesNothing]_vars

\* two pages with the same address were delivered into a 'Sent' holding
\* neither name, under the plain name and the suffix 1
C16_Witness ==
    /\ Len(pages) >= 2
    /\ BothDelivered(1, 2)
    /\ NameIn(sent, 1) = PlainName(1)
    /\ NameIn(sent, 2) = FirstSuffixName(2)
    /\ \A n \in DOMAIN sent : sent[n] # 0

\* while the loop runs, the counter is at most one more than the number of
\* files in 'Sent', and the recursive reading of the loop, started from the
\* current candidate, ends on the name the whole loop ends on
LoopVariant ==
    pc = "while" =>
      /\ counter <= Cardinality(DOMAIN sent) + 1
      /\ probe(DOMAIN sent, name_parts[1], name_parts[2], name_parts[3],
               sent_file_path, counter)
           = sent_file_path_of(DOMAIN sent, output_pdf_path)

\* the loop is left only with a candidate that 'Sent' does not hold, and a
\* rename that returns has put the artifact under that name in 'Sent'
LoopExit ==
    (pc = "while" /\ pc' # "while") =>
        /\ sent_file_path \notin DOMAIN sent
        /\ pc' = "moved" =>
             /\ sent_file_path \in DOMAIN sent'
             /\ sent'[sent_file_path] = 1
             /\ ~ArtifactIn(cwd', 1)

\* C17: for every content of 'Sent' the collision loop of
\* move_to_sent_folder ends: the filing leaves the loop with an unused name
\* after at most as many probes as 'Sent' has files, and the rename is then
\* executed.
C17_CollisionLoopTerminates ==
    /\ <>(pc \in {"moved", "except"})
    /\ []LoopVariant
    /\ [][LoopExit]_vars

\* the loop ran over the original name and every suffix up to MaxProbe
\* before the artifact was filed
C17_Witness ==
    /\ pc = "moved"
    /\ counter >= 5
    /\ sent[sent_file_path] = 1

TypeOK ==
    /\ pc \in {"start", "loop", "split", "send", "except", "done", "exit", "raised",
              "while", "moved"}
    /\ doc \in {"unopened", "open", "closed"}
    /\ page_num \in 0..Len(pages)
    /\ sessions \in 0..Len(pages)

====
